---------------------------- MODULE Spec2Model ----------------------------
(***************************************************************************)
(* Model of src/image_analyzer.py: the ImageAnalyzer Tk application.       *)
(*                                                                         *)
(* The state is the object's fields plus the two Tk widgets the handlers   *)
(* write to: the canvas (a set of items, each with the id Tk gave it) and  *)
(* the results frame (its child labels, in pack order).  Each handler is   *)
(* one action; update_averages is part of every handler that calls it.     *)
(*                                                                         *)
(* Conventions                                                             *)
(*  - Python None for an Optional[int] canvas id is 0: Tk canvas ids start *)
(*    at 1, and the code tests these fields by truthiness only.            *)
(*  - start_x / start_y are <<>> for None and <<v>> for the number v;       *)
(*    reference_avg None is the empty tuple <<>>.                          *)
(*  - A mean is the exact fraction <<sum, count>>; count = 0 is numpy's    *)
(*    nan (np.mean of an empty slice warns and returns nan, it does not    *)
(*    raise).  |a - b| is the fraction <<num, den>>, <<0, 0>> when either  *)
(*    side is nan.  float64 rounding is not modelled.                      *)
(*  - canvasx / canvasy return the event coordinate as an integral float   *)
(*    (the canvas is never scrolled), so int() in update_averages does not *)
(*    change it: coordinates are integers.                                 *)
(*  - The marker strings are transliterated: "primer" is the reference     *)
(*    label (lines 107-111), "svobodno" line 184, "zanyato" line 186.      *)
(***************************************************************************)
EXTENDS Integers, Sequences, FiniteSets

VARIABLES
    image,                \* self.image: 0 (None) or an index into Images
    rectangles,           \* self.rectangles
    current_rect,         \* self.current_rect: 0 (None) or a canvas id
    start_x,              \* self.start_x
    start_y,              \* self.start_y
    current_color_index,  \* self.current_color_index
    reference_rect_id,    \* self.reference_rect_id: 0 (None) or a canvas id
    reference_avg,        \* self.reference_avg: <<>> (None) or a mean
    canvas,               \* self.canvas: the items it holds
    results,              \* self.results_frame.winfo_children()
    next_id,              \* the id Tk gives the next canvas item
    draft_coords,         \* canvas.coords(current_rect), <<>> when there is none
    created_on            \* history: the image each stored region was finalized on

vars == <<image, rectangles, current_rect, start_x, start_y,
          current_color_index, reference_rect_id, reference_avg,
          canvas, results, next_id, draft_coords, created_on>>

-----------------------------------------------------------------------------
(* Bounds of the model. *)

\* In SpecMean pointer events land at most Margin pixels outside the image.
Margin == 2
\* Largest canvas id Tk hands out in a run of Spec.
MaxId == 6
\* Largest canvas id Tk hands out in a run of SpecDraw.
MaxDrawId == 8
\* In Spec the pointer is at one of <<0, 0>> .. <<GuiMax, GuiMax>>.
GuiMax == 1

-----------------------------------------------------------------------------
(* Program constants. *)

colors == <<"red", "blue", "green", "yellow", "purple">>

\* The classification threshold of line 183.
Threshold == 3

NoCoord == <<>>
NoAvg == <<>>
NaN == <<0, 0>>

(***************************************************************************)
(* The files the dialog can return.  Path 0 is the empty string of a       *)
(* cancelled dialog.  An image is its width, height and pixel array        *)
(* px[row][col], each pixel the sequence of its channel values (one for a  *)
(* greyscale file, three for RGB), which is np.array(self.image).          *)
(***************************************************************************)
Images == <<
    [w |-> 2, h |-> 1, px |-> << << <<0>>, <<3>> >> >>],
    [w |-> 1, h |-> 2, px |-> << << <<2, 2, 2>> >>, << <<10, 13, 7>> >> >>] >>

FilePaths == 0 .. Len(Images)

-----------------------------------------------------------------------------
(* Arithmetic helpers. *)

Min(a, b) == IF a <= b THEN a ELSE b
Max(a, b) == IF a >= b THEN a ELSE b
Abs(a) == IF a < 0 THEN 0 - a ELSE a

RECURSIVE SumSeq(_)
SumSeq(s) == IF s = <<>> THEN 0 ELSE Head(s) + SumSeq(Tail(s))

RECURSIVE SumCells(_, _)
\* Sum of all channel values of the pixels at the <<row, col>> pairs of cells.
SumCells(px, cells) ==
    IF cells = {} THEN 0
    ELSE LET c == CHOOSE c \in cells : TRUE
         IN SumSeq(px[c[1]][c[2]]) + SumCells(px, cells \ {c})

Channels(img) == Len(img.px[1][1])

\* Where a pointer event can land on one axis of the canvas, which line 73
\* sizes to the image: len is the image's width or height.  Tk reports the
\* pointer relative to the canvas, so a press, motion or release that reaches
\* the canvas while the pointer is grabbed lands left of or above it with a
\* negative coordinate.
Coords(len) == (0 - Margin) .. (len + Margin)
\* The pointer positions inside the image on one axis, the far edge included.
Inner(len) == 0 .. len
\* The pointer positions of Spec.
Gui == {<<k, k>> : k \in 0 .. GuiMax}

-----------------------------------------------------------------------------
(* numpy: basic slicing and np.mean. *)

\* A slice bound i on an axis of length n: a negative bound counts from the
\* end, and the result is clipped to 0 .. n.
SliceBound(i, n) == IF i < 0 THEN Max(i + n, 0) ELSE Min(i, n)

\* The 0-based indices a[lo:hi] selects on an axis of length n.
SliceIndices(lo, hi, n) ==
    {k \in 0 .. n - 1 : SliceBound(lo, n) <= k /\ k < SliceBound(hi, n)}

\* ClampLo with max(0, ...) left out.
ClampLoMissing(v) == v

\* Lines 153-154 and 170-171: the lower and the upper clamp.
ClampLo(v) == Max(0, v)
ClampHi(limit, v) == Min(limit, v)

\* Lines 152-156 and 170-175: np.mean(img_array[y1:y2, x1:x2]) after the
\* clamping, over all channels of the selected pixels.
RegionMean(img, x1, y1, x2, y2) ==
    LET rows  == SliceIndices(ClampLo(y1), ClampHi(img.h, y2), img.h)
        cols  == SliceIndices(ClampLo(x1), ClampHi(img.w, x2), img.w)
        cells == {<<r + 1, c + 1>> : r \in rows, c \in cols}
    IN <<SumCells(img.px, cells), Cardinality(cells) * Channels(img)>>

IsNaN(m) == m[2] = 0

\* Line 179: abs(avg_value - self.reference_avg), nan when either is nan.
AbsDiff(a, b) ==
    IF IsNaN(a) \/ IsNaN(b) THEN NaN
    ELSE <<Abs(a[1] * b[2] - b[1] * a[2]), a[2] * b[2]>>

\* DiffBelowThreshold with <= for <.
DiffAtMostThreshold(d) == ~IsNaN(d) /\ d[1] <= Threshold * d[2]

\* Line 183: diff < 3; a comparison with nan is False.
DiffBelowThreshold(d) == ~IsNaN(d) /\ d[1] < Threshold * d[2]

-----------------------------------------------------------------------------
(* Tk: canvas items and result labels. *)

\* A canvas item as create_image / create_rectangle / create_text make it.
\* No call of the program passes tags=, so every item has the empty tag set.
\* owner is history: the canvas id of the region a text was drawn for.
\* Where an item is drawn is kept for the draft rectangle only (draft_coords):
\* no handler reads the position of any other item.
Item(id, type, text, owner) ==
    [id |-> id, type |-> type, text |-> text, tags |-> {}, owner |-> owner]

\* canvas.delete(id) with an integer id.
DeleteId(items, id) == {it \in items : it.id # id}

\* canvas.delete(tag) with a string that is no id: Tk deletes the items that
\* carry the tag.
DeleteTag(items, tag) == {it \in items : tag \notin it.tags}

\* Lines 159-161 and 180-190: the label packed into the results frame.
Label(kind, index, color, mean, diff) ==
    [kind |-> kind, index |-> index, color |-> color, mean |-> mean,
     diff |-> diff]

-----------------------------------------------------------------------------
(* update_averages, lines 136-190. *)

\* Lines 149-156: the reference mean, when the reference region is in the
\* store; otherwise self.reference_avg is left as it was.
RefRect(rects, refId) ==
    IF refId # 0 /\ \E i \in 1 .. Len(rects) : rects[i].id = refId
    THEN <<rects[CHOOSE i \in 1 .. Len(rects) :
                    /\ rects[i].id = refId
                    /\ \A j \in 1 .. i - 1 : rects[j].id # refId]>>
    ELSE <<>>

NewReferenceAvg(img, rects, refId, refAvg) ==
    LET ref == RefRect(rects, refId)
    IN IF ref = <<>> THEN refAvg
       ELSE RegionMean(img, ref[1].x1, ref[1].y1, ref[1].x2, ref[1].y2)

\* Lines 183-186: the marker drawn for region r.
Marker(id, r, diff) ==
    Item(id, "text",
         IF DiffBelowThreshold(diff) THEN "svobodno" ELSE "zanyato", r.id)

RECURSIVE UpdateLoop(_, _, _, _, _, _)
\* Lines 164-190: the loop over self.rectangles from index i on; acc holds
\* what the iterations before i created.
UpdateLoop(img, rects, refId, refAvg, i, acc) ==
    IF i > Len(rects) THEN acc
    ELSE LET r == rects[i]
         IN IF r.id = refId
            THEN UpdateLoop(img, rects, refId, refAvg, i + 1, acc)
            ELSE LET avg  == RegionMean(img, r.x1, r.y1, r.x2, r.y2)
                     diff == IF refAvg # NoAvg THEN AbsDiff(avg, refAvg)
                             ELSE NoAvg
                 IN UpdateLoop(img, rects, refId, refAvg, i + 1,
                      [labels |-> Append(acc.labels,
                                   Label("region", i, r.color, avg, diff)),
                       items  |-> IF refAvg # NoAvg
                                  THEN acc.items \cup {Marker(acc.nid, r, diff)}
                                  ELSE acc.items,
                       nid    |-> IF refAvg # NoAvg THEN acc.nid + 1
                                  ELSE acc.nid])

\* update_averages as a function of the state it reads: the new
\* reference_avg, the labels of the results frame, the canvas and the next id.
UpdateAverages(im, rects, refId, refAvg, items, nid) ==
    IF im = 0 \/ rects = <<>>
    THEN [avg |-> refAvg, labels |-> <<>>, items |-> items, nid |-> nid]
    ELSE LET img    == Images[im]
             newAvg == NewReferenceAvg(img, rects, refId, refAvg)
             first  == IF RefRect(rects, refId) # <<>>
                       THEN <<Label("reference", 0, "red", newAvg, NoAvg)>>
                       ELSE <<>>
             out    == UpdateLoop(img, rects, refId, newAvg, 1,
                         [labels |-> first, items |-> items, nid |-> nid])
         IN [avg |-> newAvg, labels |-> out.labels, items |-> out.items,
             nid |-> out.nid]

-----------------------------------------------------------------------------
(* The handlers. *)

\* __init__, lines 29-38 and 45-58: an empty canvas and results frame.
Init ==
    /\ image = 0
    /\ rectangles = <<>>
    /\ current_rect = 0
    /\ start_x = NoCoord
    /\ start_y = NoCoord
    /\ current_color_index = 0
    /\ reference_rect_id = 0
    /\ reference_avg = NoAvg
    /\ canvas = {}
    /\ results = <<>>
    /\ next_id = 1
    /\ draft_coords = <<>>
    /\ created_on = <<>>

\* Lines 127-128: the canvas once every stored region's rectangle is deleted.
DeleteRegions(items, rects) ==
    {it \in items : \A i \in 1 .. Len(rects) : it.id # rects[i].id}

\* Line 134: self.canvas.delete("text").
DeleteTexts(items) == DeleteTag(items, "text")

\* ClearEffect without line 130: the reference id survives the clear.
ClearKeepsReference(items) ==
    /\ rectangles' = <<>>
    /\ reference_rect_id' = reference_rect_id
    /\ LET u == UpdateAverages(image', <<>>, reference_rect_id, NoAvg,
                                DeleteRegions(items, rectangles), next_id')
       IN /\ reference_avg' = u.avg
          /\ results' = u.labels
          /\ canvas' = DeleteTexts(u.items)
    /\ created_on' = <<>>

\* ClearEffect without line 131: the reference mean survives the clear.
ClearKeepsAverage(items) ==
    /\ rectangles' = <<>>
    /\ reference_rect_id' = 0
    /\ LET u == UpdateAverages(image', <<>>, 0, reference_avg,
                                DeleteRegions(items, rectangles), next_id')
       IN /\ reference_avg' = u.avg
          /\ results' = u.labels
          /\ canvas' = DeleteTexts(u.items)
    /\ created_on' = <<>>

\* clear_rectangles, lines 125-134, on a canvas holding items.
ClearEffect(items) ==
    /\ rectangles' = <<>>
    /\ reference_rect_id' = 0
    /\ LET u == UpdateAverages(image', <<>>, 0, NoAvg,
                                DeleteRegions(items, rectangles), next_id')
       IN /\ reference_avg' = u.avg
          /\ results' = u.labels
          /\ canvas' = DeleteTexts(u.items)
    /\ created_on' = <<>>

\* clear_rectangles, bound to the "Clear Rectangles" button.
ClearRectangles ==
    /\ UNCHANGED <<image, next_id>>
    /\ ClearEffect(canvas)
    /\ UNCHANGED <<current_rect, start_x, start_y, current_color_index,
                   draft_coords>>

\* LoadImage without line 75: the new image is shown over the old regions.
LoadImageWithoutClear(path) ==
    IF path # 0
    THEN /\ image' = path
         /\ next_id' = next_id + 1
         /\ canvas' = canvas \cup {Item(next_id, "image", "", 0)}
         /\ UNCHANGED <<rectangles, reference_rect_id, reference_avg, results,
                        created_on, current_rect, start_x, start_y,
                        current_color_index, draft_coords>>
    ELSE UNCHANGED vars

\* load_image, lines 65-75; path is what the file dialog returned, 0 the
\* empty string of a cancelled dialog.
LoadImage(path) ==
    IF path # 0
    THEN /\ image' = path
         /\ next_id' = next_id + 1
         /\ ClearEffect(canvas \cup {Item(next_id, "image", "", 0)})
         /\ UNCHANGED <<current_rect, start_x, start_y, current_color_index,
                        draft_coords>>
    ELSE UNCHANGED vars

\* on_press, lines 77-86.
OnPress(x, y) ==
    /\ start_x' = <<x>>
    /\ start_y' = <<y>>
    /\ next_id' = next_id + 1
    /\ current_rect' = next_id
    /\ canvas' = (IF current_rect # 0 THEN DeleteId(canvas, current_rect)
                                      ELSE canvas)
                   \cup {Item(next_id, "rectangle", "", 0)}
    /\ draft_coords' = <<x, y, x, y>>
    /\ UNCHANGED <<image, rectangles, current_color_index, reference_rect_id,
                   reference_avg, results, created_on>>

\* on_drag, lines 88-93.
OnDrag(x, y) ==
    IF current_rect # 0
    THEN /\ draft_coords' = <<start_x[1], start_y[1], x, y>>
         /\ UNCHANGED <<image, rectangles, current_rect, start_x, start_y,
                        current_color_index, reference_rect_id, reference_avg,
                        canvas, results, next_id, created_on>>
    ELSE UNCHANGED vars

\* NewRegion without min / max: the press point first, as dragged.
NewRegionAsDragged(sx, sy, ex, ey, color, id) ==
    [x1 |-> sx, y1 |-> sy, x2 |-> ex, y2 |-> ey, color |-> color, id |-> id]

\* Lines 113-120: the tuple on_release appends.
NewRegion(sx, sy, ex, ey, color, id) ==
    [x1 |-> Min(sx, ex), y1 |-> Min(sy, ey),
     x2 |-> Max(sx, ex), y2 |-> Max(sy, ey), color |-> color, id |-> id]

\* NewReference without the test of line 102: every release takes it over.
NewReferenceAlways(rects, refId, id) == id

\* Lines 102-103: the reference after a release, given the store before it.
NewReference(rects, refId, id) == IF rects = <<>> THEN id ELSE refId

\* on_release, lines 95-123.
OnRelease(x, y) ==
    IF current_rect # 0
    THEN LET first    == rectangles = <<>>
             refId    == NewReference(rectangles, reference_rect_id,
                                      current_rect)
             labelled == IF first
                         THEN canvas \cup
                              {Item(next_id, "text", "primer", current_rect)}
                         ELSE canvas
             nid      == IF first THEN next_id + 1 ELSE next_id
             rects    == Append(rectangles,
                                NewRegion(start_x[1], start_y[1], x, y,
                                          colors[current_color_index + 1],
                                          current_rect))
             u        == UpdateAverages(image, rects, refId, reference_avg,
                                        labelled, nid)
         IN /\ reference_rect_id' = refId
            /\ rectangles' = rects
            /\ current_rect' = 0
            /\ reference_avg' = u.avg
            /\ results' = u.labels
            /\ canvas' = u.items
            /\ next_id' = u.nid
            /\ current_color_index' =
                   (current_color_index + 1) % Len(colors)
            /\ draft_coords' = <<>>
            /\ created_on' = Append(created_on, image)
            /\ UNCHANGED <<image, start_x, start_y>>
    ELSE UNCHANGED vars

-----------------------------------------------------------------------------
(* Specifications. *)

\* Tk never runs out of ids; a run of the model stops taking them after max.
IdsLeft(max) == next_id' <= max + 1

\* The whole interaction, with the pointer on the positions Gui.
Next ==
    \/ \E path \in FilePaths : LoadImage(path) /\ IdsLeft(MaxId)
    \/ \E p \in Gui : OnPress(p[1], p[2]) /\ IdsLeft(MaxId)
    \/ \E p \in Gui : OnDrag(p[1], p[2])
    \/ \E p \in Gui : OnRelease(p[1], p[2]) /\ IdsLeft(MaxId)
    \/ ClearRectangles

Spec == Init /\ [][Next]_vars

\* A region that lies inside the image img, edges included.
IsInner(img, r) ==
    /\ {r.x1, r.x2} \subseteq Inner(img.w)
    /\ {r.y1, r.y2} \subseteq Inner(img.h)

\* One image is loaded and then at most two regions are drawn on it, one
\* after the other, with the pointer anywhere in Coords.  Of two regions at
\* least one is inner: every region is met as the reference and as a compared
\* region, against every inner one.
NextMean ==
    \/ /\ image = 0
       /\ \E path \in FilePaths : LoadImage(path)
    \/ /\ image # 0
       /\ current_rect = 0
       /\ Len(rectangles) < 2
       /\ \E x \in Coords(Images[image].w), y \in Coords(Images[image].h) :
             OnPress(x, y)
    \/ /\ image # 0
       /\ current_rect # 0
       /\ \E x \in Coords(Images[image].w), y \in Coords(Images[image].h) :
             /\ rectangles # <<>> =>
                   \/ IsInner(Images[image], rectangles[1])
                   \/ IsInner(Images[image],
                              NewRegion(start_x[1], start_y[1], x, y, "", 0))
             /\ OnRelease(x, y)

SpecMean == Init /\ [][NextMean]_vars

\* One image is loaded and then regions are drawn on it with the pointer on
\* the positions Gui, as long as there are ids left.
NextDraw ==
    \/ /\ image = 0
       /\ \E path \in FilePaths : LoadImage(path)
    \/ /\ image # 0
       /\ \E p \in Gui : OnPress(p[1], p[2]) /\ IdsLeft(MaxDrawId)
    \/ /\ image # 0
       /\ \E p \in Gui : OnRelease(p[1], p[2]) /\ IdsLeft(MaxDrawId)

SpecDraw == Init /\ [][NextDraw]_vars

-----------------------------------------------------------------------------
(* Vocabulary of the properties. *)

RegionIndices == 1 .. Len(rectangles)

IsReference(i) == rectangles[i].id = reference_rect_id

\* The classification markers on a canvas, and those drawn for region id.
Markers(items) ==
    {it \in items : it.type = "text" /\ it.text \in {"svobodno", "zanyato"}}
MarkersOf(items, id) == {it \in Markers(items) : it.owner = id}

\* The reference labels on a canvas.
ReferenceLabels(items) ==
    {it \in items : it.type = "text" /\ it.text = "primer"}

\* The label the results frame shows for region i of the store.
LabelOf(i) ==
    IF IsReference(i)
    THEN CHOOSE k \in 1 .. Len(results) : results[k].kind = "reference"
    ELSE CHOOSE k \in 1 .. Len(results) :
            results[k].kind = "region" /\ results[k].index = i

\* The mean update_averages reported for region i.
ReportedMean(i) == results[LabelOf(i)].mean

\* The pixels of the loaded image inside the rectangle [x1,x2) x [y1,y2),
\* as <<row, column>> pairs counted from 1.
Intersection(r) ==
    {<<y + 1, x + 1>> : y \in {v \in 0 .. Images[image].h - 1 :
                                  r.y1 <= v /\ v < r.y2},
                       x \in {v \in 0 .. Images[image].w - 1 :
                                  r.x1 <= v /\ v < r.x2}}

\* A region with no point inside the image: right of, below, left of or
\* above it.
FullyOutside(r) ==
    \/ r.x1 >= Images[image].w
    \/ r.y1 >= Images[image].h
    \/ r.x2 <= 0
    \/ r.y2 <= 0

-----------------------------------------------------------------------------
(* C1 *)

ReferenceIsFirstRegion ==
    /\ rectangles = <<>> => reference_rect_id = 0
    /\ rectangles # <<>> =>
          /\ reference_rect_id = rectangles[1].id
          /\ Cardinality({i \in RegionIndices : IsReference(i)}) = 1

ReferenceChangesOnlyAtEmptyStore ==
    reference_rect_id' # reference_rect_id =>
        rectangles = <<>> \/ rectangles' = <<>>

\* C1: at most one region is the reference; while the store is non-empty the
\* reference is its first region, and no step that starts and ends with a
\* non-empty store (a later on_release) changes it; an empty store has no
\* reference.
C1_ReferenceIsFirst ==
    /\ []ReferenceIsFirstRegion
    /\ [][ReferenceChangesOnlyAtEmptyStore]_vars

\* C1 witness: three regions in the store, the first still the reference.
C1_Witness ==
    /\ Len(rectangles) = 3
    /\ reference_rect_id = rectangles[1].id
    /\ rectangles[3].id # reference_rect_id

-----------------------------------------------------------------------------
(* C2 *)

\* C2: a clear_rectangles step ends with an empty store, no reference and no
\* reference mean; a step that takes the store from empty to non-empty adds
\* exactly one region, the draft, and makes it the reference.
C2_ClearThenNewReference ==
    [][/\ ClearRectangles =>
            /\ rectangles' = <<>>
            /\ reference_rect_id' = 0
            /\ reference_avg' = NoAvg
       /\ (rectangles = <<>> /\ rectangles' # <<>>) =>
            /\ Len(rectangles') = 1
            /\ rectangles'[1].id = current_rect
            /\ reference_rect_id' = current_rect
            /\ current_rect # 0]_vars

\* C2 witness: a reference made after a clear: the label of an earlier
\* reference is still on the canvas beside the current one.
C2_Witness ==
    /\ Len(rectangles) = 1
    /\ reference_rect_id = rectangles[1].id
    /\ \E it \in ReferenceLabels(canvas) :
          it.owner # 0 /\ it.owner < reference_rect_id

-----------------------------------------------------------------------------
(* C3 *)

\* C3: a load_image step with a file sets the image and leaves an empty
\* store, no reference and no reference mean; one with a cancelled dialog
\* leaves image, store and reference as they were; and every stored region
\* was finalized on the current image.
C3_LoadForcesClear ==
    /\ [][\A path \in FilePaths :
            LoadImage(path) =>
                IF path # 0
                THEN /\ image' = path
                     /\ rectangles' = <<>>
                     /\ reference_rect_id' = 0
                     /\ reference_avg' = NoAvg
                ELSE UNCHANGED <<image, rectangles, reference_rect_id,
                                 reference_avg>>]_vars
    /\ [](\A i \in 1 .. Len(created_on) : created_on[i] = image)

\* C3 witness: the first image was just loaded over a region that had been
\* drawn with no image: the store is empty, one image item is the newest item
\* of the canvas, and an older reference label is still there.
C3_Witness ==
    /\ image # 0
    /\ rectangles = <<>>
    /\ reference_rect_id = 0
    /\ Cardinality({it \in canvas : it.type = "image"}) = 1
    /\ \E im \in canvas :
          /\ im.type = "image"
          /\ im.id = next_id - 1
          /\ \E it \in ReferenceLabels(canvas) : it.id < im.id

-----------------------------------------------------------------------------
(* C4 *)

\* |a - b| < 3 for two defined means, by cross-multiplication.
CloserThanThree(a, b) ==
    /\ a[1] * b[2] - b[1] * a[2] < 3 * a[2] * b[2]
    /\ b[1] * a[2] - a[1] * b[2] < 3 * a[2] * b[2]

\* C4: for every compared region whose mean and the reference mean are both
\* defined, the reported diff is |mean - reference mean| and the marker drawn
\* for it reads "svobodno" iff that difference is below 3, "zanyato"
\* otherwise, a difference of exactly 3 included.
C4_Classification ==
    image # 0 =>
      \A i \in RegionIndices :
        (/\ ~IsReference(i)
         /\ reference_avg # NoAvg
         /\ reference_avg[2] # 0
         /\ ReportedMean(i)[2] # 0) =>
          LET m == ReportedMean(i)
              r == reference_avg
              d == results[LabelOf(i)].diff
          IN /\ d[2] > 0
             /\ d[1] >= 0
             /\ \/ d[1] * (m[2] * r[2]) = (m[1] * r[2] - r[1] * m[2]) * d[2]
                \/ d[1] * (m[2] * r[2]) = (r[1] * m[2] - m[1] * r[2]) * d[2]
             /\ \E mk \in MarkersOf(canvas, rectangles[i].id) :
                   /\ \A other \in MarkersOf(canvas, rectangles[i].id) :
                         other.id <= mk.id
                   /\ mk.text = IF CloserThanThree(m, r) THEN "svobodno"
                                                         ELSE "zanyato"

\* C4 witness: a compared region whose mean differs from the reference mean
\* by exactly 3, marked "zanyato".
C4_Witness ==
    /\ image # 0
    /\ \E i \in RegionIndices :
          /\ ~IsReference(i)
          /\ results[LabelOf(i)].diff # NoAvg
          /\ results[LabelOf(i)].diff[2] > 0
          /\ results[LabelOf(i)].diff[1] = 3 * results[LabelOf(i)].diff[2]
          /\ \E mk \in MarkersOf(canvas, rectangles[i].id) :
                mk.text = "zanyato"

-----------------------------------------------------------------------------
(* C5 *)

\* C5: every stored region that lies fully outside the loaded image, on any
\* side, is reported with an undefined mean.
C5_OutsideIsUndefined ==
    image # 0 =>
      \A i \in RegionIndices :
        FullyOutside(rectangles[i]) => IsNaN(ReportedMean(i))

-----------------------------------------------------------------------------
(* C6 *)

\* C6: every stored region that has a pixel in common with the loaded image
\* is reported with the mean of exactly the pixels in the intersection: their
\* channel values summed, over their number.
C6_MeanOfIntersection ==
    image # 0 =>
      \A i \in RegionIndices :
        Intersection(rectangles[i]) # {} =>
          ReportedMean(i) =
            <<SumCells(Images[image].px, Intersection(rectangles[i])),
              Cardinality(Intersection(rectangles[i]))
                 * Channels(Images[image])>>

\* C6 witness: a compared region that covers the whole image and reaches
\* beyond it on every side.
C6_Witness ==
    /\ image # 0
    /\ \E i \in RegionIndices :
          /\ ~IsReference(i)
          /\ rectangles[i].x1 < 0
          /\ rectangles[i].y1 < 0
          /\ rectangles[i].x2 > Images[image].w
          /\ rectangles[i].y2 > Images[image].h
          /\ ~IsNaN(ReportedMean(i))

-----------------------------------------------------------------------------
(* C7 *)

\* C7: while no image is loaded the results frame is empty, no classification
\* marker is on the canvas and there is no reference mean; a reference mean
\* exists only with an image loaded and a non-empty store.
C7_NoImageNoResults ==
    /\ image = 0 =>
          /\ results = <<>>
          /\ Markers(canvas) = {}
          /\ reference_avg = NoAvg
    /\ reference_avg # NoAvg => image # 0 /\ rectangles # <<>>

\* C7 witness: two regions recorded, and one cleared before them, with no
\* image loaded.
C7_Witness ==
    /\ image = 0
    /\ Len(rectangles) = 2
    /\ \E it \in ReferenceLabels(canvas) : it.owner # reference_rect_id

-----------------------------------------------------------------------------
(* C8 *)

RegionsNormalized ==
    \A i \in RegionIndices :
        rectangles[i].x1 <= rectangles[i].x2
            /\ rectangles[i].y1 <= rectangles[i].y2

\* The store after the step is the store before it plus one region at the
\* end, the draft, spanning the press point and some release point.
AppendsDraft ==
    /\ current_rect # 0
    /\ Len(rectangles') = Len(rectangles) + 1
    /\ SubSeq(rectangles', 1, Len(rectangles)) = rectangles
    /\ LET r == rectangles'[Len(rectangles')]
       IN /\ r.id = current_rect
          /\ r.color = colors[current_color_index + 1]
          /\ start_x[1] \in {r.x1, r.x2}
          /\ start_y[1] \in {r.y1, r.y2}

StoreStep ==
    /\ \/ rectangles' = rectangles
       \/ AppendsDraft /\ \E p \in Gui : OnRelease(p[1], p[2])
       \/ /\ rectangles' = <<>>
          /\ \/ ClearRectangles
             \/ \E path \in FilePaths \ {0} : LoadImage(path)
    /\ \A p \in Gui :
          /\ OnPress(p[1], p[2]) => rectangles' = rectangles
          /\ OnDrag(p[1], p[2]) => rectangles' = rectangles
          /\ (current_rect = 0 /\ OnRelease(p[1], p[2])) => UNCHANGED vars
          /\ (current_rect # 0 /\ OnRelease(p[1], p[2])) => AppendsDraft

\* C8: every stored region has x1 <= x2 and y1 <= y2; a step either leaves
\* the store as it is, or is an on_release with a draft that appends that one
\* region and keeps the earlier ones, or is a clear (by clear_rectangles or
\* load_image) that empties it; on_press, on_drag and an on_release without
\* a draft leave it as it is.
C8_AppendOnlyStore ==
    /\ []RegionsNormalized
    /\ [][StoreStep]_vars

\* C8 witness: two regions in the store, the second drawn from its
\* bottom-right corner to its top-left one.
C8_Witness ==
    /\ Len(rectangles) = 2
    /\ rectangles[2].x1 < rectangles[2].x2
    /\ rectangles[2].y1 < rectangles[2].y2
    /\ start_x = <<rectangles[2].x2>>
    /\ start_y = <<rectangles[2].y2>>

-----------------------------------------------------------------------------
(* C9 *)

\* C9: after a clear_rectangles step the canvas holds no rectangle of a
\* region that was in the store and no text drawn for one (reference label
\* or classification marker), and the results frame is empty.
C9_ClearRemovesDisplays ==
    [][ClearRectangles =>
          /\ results' = <<>>
          /\ \A it \in canvas' : \A i \in RegionIndices :
                it.id # rectangles[i].id /\ it.owner # rectangles[i].id]_vars

-----------------------------------------------------------------------------
(* C10 *)

\* C10: with an image loaded the canvas carries exactly one classification
\* marker for each compared region of the store and none for the reference.
C10_OneMarkerPerRegion ==
    image # 0 =>
      \A i \in RegionIndices :
        Cardinality(MarkersOf(canvas, rectangles[i].id)) =
            IF IsReference(i) THEN 0 ELSE 1

=============================================================================
